---------------------------- MODULE Spec2Model ----------------------------
(***************************************************************************)
(* Model of fcm-rust's async client, src/client/mod.rs: Client::send       *)
(* builds one POST request, awaits the response, reads the Retry-After     *)
(* header and classifies the outcome by status code (and, for 200 and 400, *)
(* by the body).  Several send calls may be in flight on one Client.       *)
(***************************************************************************)
EXTENDS Integers, Sequences, FiniteSets, TLC

(***************************************************************************)
(* Bounds                                                                  *)
(***************************************************************************)
\* number of tasks that may each have one send call in flight
NumTasks == 2

Tasks == 1..NumTasks

(***************************************************************************)
(* Text and bytes.  Text is a TLA+ string; header values and bodies travel *)
(* as sequences of octets (0..255).                                        *)
(***************************************************************************)
\* the visible ASCII characters, octets 32..95 and 97..126 in order (the
\* grave accent, octet 96, cannot be written in a TLA+ string and occurs in no
\* input of this model)
AsciiLow == " !\"#$%&'()*+,-./0123456789:;<=>?@ABCDEFGHIJKLMNOPQRSTUVWXYZ[\\]^_"

AsciiHigh == "abcdefghijklmnopqrstuvwxyz{|}~"

VisibleOctets == 32..126

Chr(b) == IF b < 96 THEN SubSeq(AsciiLow, b - 31, b - 31)
                    ELSE SubSeq(AsciiHigh, b - 96, b - 96)

Ord(ch) == CHOOSE b \in VisibleOctets \ {96} : Chr(b) = ch

\* the octets of an ASCII text
Bytes(text) == [i \in 1..Len(text) |-> Ord(SubSeq(text, i, i))]

None == [some |-> FALSE]

Some(v) == [some |-> TRUE, val |-> v]

RECURSIVE ConcatChr(_)
ConcatChr(bs) == IF bs = <<>> THEN "" ELSE Chr(Head(bs)) \o ConcatChr(Tail(bs))

\* HeaderValue::to_str: the value as text when every octet is visible ASCII
\* (HTAB is never produced by the inputs of this model), otherwise an error
to_str(bs) ==
    IF \A i \in 1..Len(bs) : bs[i] \in VisibleOctets
    THEN Some(ConcatChr(bs))
    ELSE None

\* the replacement character U+FFFD, written out
Replacement == "<U+FFFD>"

\* Response::text decodes lossily: an octet that is not valid UTF-8 becomes
\* U+FFFD (only ASCII and lone invalid octets occur in this model)
RECURSIVE Utf8Lossy(_)
Utf8Lossy(bs) ==
    IF bs = <<>> THEN ""
    ELSE (IF Head(bs) \in VisibleOctets THEN Chr(Head(bs)) ELSE Replacement)
         \o Utf8Lossy(Tail(bs))

At(t, i) == IF i >= 1 /\ i <= Len(t) THEN SubSeq(t, i, i) ELSE ""

Digits == "0123456789"

IsDigit(ch) == ch # "" /\ \E d \in 1..10 : SubSeq(Digits, d, d) = ch

DigitVal(ch) == (CHOOSE d \in 1..10 : SubSeq(Digits, d, d) = ch) - 1

RECURSIVE ParseNat(_, _)
ParseNat(t, acc) ==
    IF t = "" THEN acc
    ELSE ParseNat(SubSeq(t, 2, Len(t)), 10 * acc + DigitVal(At(t, 1)))

AllDigits(t) == t # "" /\ \A i \in 1..Len(t) : IsDigit(At(t, i))

\* s contains sub as a contiguous substring
Contains(s, sub) ==
    \E i \in 1..(Len(s) - Len(sub) + 1) : SubSeq(s, i, i + Len(sub) - 1) = sub

(***************************************************************************)
(* RetryAfter: a delay in seconds or an HTTP-date (IMF-fixdate).           *)
(***************************************************************************)
MonthNames == <<"Jan", "Feb", "Mar", "Apr", "May", "Jun",
                "Jul", "Aug", "Sep", "Oct", "Nov", "Dec">>

DayNames == {"Mon", "Tue", "Wed", "Thu", "Fri", "Sat", "Sun"}

Delay(seconds) == [kind |-> "Delay", seconds |-> seconds]

DateTime(y, mo, d, h, mi, s) ==
    [kind |-> "DateTime", year |-> y, month |-> mo, day |-> d,
     hour |-> h, minute |-> mi, second |-> s]

\* "Sun, 06 Nov 1994 08:49:37 GMT"
ParseHttpDate(t) ==
    IF /\ Len(t) = 29
       /\ SubSeq(t, 1, 3) \in DayNames
       /\ SubSeq(t, 4, 5) = ", "
       /\ AllDigits(SubSeq(t, 6, 7))
       /\ At(t, 8) = " "
       /\ \E m \in 1..12 : MonthNames[m] = SubSeq(t, 9, 11)
       /\ At(t, 12) = " "
       /\ AllDigits(SubSeq(t, 13, 16))
       /\ At(t, 17) = " "
       /\ AllDigits(SubSeq(t, 18, 19))
       /\ At(t, 20) = ":"
       /\ AllDigits(SubSeq(t, 21, 22))
       /\ At(t, 23) = ":"
       /\ AllDigits(SubSeq(t, 24, 25))
       /\ SubSeq(t, 26, 29) = " GMT"
       /\ ParseNat(SubSeq(t, 6, 7), 0) \in 1..31
       /\ ParseNat(SubSeq(t, 18, 19), 0) < 24
       /\ ParseNat(SubSeq(t, 21, 22), 0) < 60
       /\ ParseNat(SubSeq(t, 24, 25), 0) < 60
    THEN Some(DateTime(ParseNat(SubSeq(t, 13, 16), 0),
                       CHOOSE m \in 1..12 : MonthNames[m] = SubSeq(t, 9, 11),
                       ParseNat(SubSeq(t, 6, 7), 0),
                       ParseNat(SubSeq(t, 18, 19), 0),
                       ParseNat(SubSeq(t, 21, 22), 0),
                       ParseNat(SubSeq(t, 24, 25), 0)))
    ELSE None

\* str::parse::<RetryAfter>: delay-in-seconds first, then HTTP-date
ParseRetryAfter(t) ==
    IF AllDigits(t) THEN Some(Delay(ParseNat(t, 0))) ELSE ParseHttpDate(t)

(***************************************************************************)
(* FcmResponse: the JSON object of a 200 body, an optional error reason    *)
(* under "error" and the provider's delivery metadata.                     *)
(***************************************************************************)
RECURSIVE SkipSpaces(_, _)
SkipSpaces(t, i) == IF At(t, i) = " " THEN SkipSpaces(t, i + 1) ELSE i

\* a JSON string without escapes starting at i: its value and the index after
ParseJsonString(t, i) ==
    IF /\ At(t, i) = "\""
       /\ \E j \in (i + 1)..Len(t) : At(t, j) = "\""
    THEN LET j == CHOOSE k \in (i + 1)..Len(t) :
                     /\ At(t, k) = "\""
                     /\ \A m \in (i + 1)..(k - 1) : At(t, m) # "\""
         IN IF \E m \in (i + 1)..(j - 1) : At(t, m) = "\\"
            THEN None
            ELSE Some([val |-> SubSeq(t, i + 1, j - 1), next |-> j + 1])
    ELSE None

\* the members "key":"value" from i up to the closing brace and end of text
RECURSIVE ParseMembers(_, _, _)
ParseMembers(t, i, acc) ==
    LET k == ParseJsonString(t, SkipSpaces(t, i)) IN
    IF ~k.some THEN None
    ELSE LET c == SkipSpaces(t, k.val.next) IN
         IF At(t, c) # ":" THEN None
         ELSE LET v == ParseJsonString(t, SkipSpaces(t, c + 1)) IN
              IF ~v.some THEN None
              ELSE LET e    == SkipSpaces(t, v.val.next)
                       acc2 == Append(acc, <<k.val.val, v.val.val>>)
                   IN IF At(t, e) = "," THEN ParseMembers(t, e + 1, acc2)
                      ELSE IF At(t, e) = "}" /\ SkipSpaces(t, e + 1) = Len(t) + 1
                           THEN Some(acc2)
                           ELSE None

\* serde_json on the text of a body: a flat object of string members
ParseJsonObject(t) ==
    LET i == SkipSpaces(t, 1) IN
    IF At(t, i) # "{" THEN None
    ELSE LET j == SkipSpaces(t, i + 1) IN
         IF At(t, j) = "}"
         THEN (IF SkipSpaces(t, j + 1) = Len(t) + 1 THEN Some(<<>>) ELSE None)
         ELSE ParseMembers(t, j, <<>>)

\* ErrorReason as the provider spells it
ErrorReasonNames ==
    { <<"UNAVAILABLE", "Unavailable">>,
      <<"INTERNAL", "InternalServerError">>,
      <<"INVALID_ARGUMENT", "InvalidArgument">>,
      <<"UNREGISTERED", "Unregistered">>,
      <<"QUOTA_EXCEEDED", "QuotaExceeded">> }

ParseErrorReason(name) ==
    IF \E p \in ErrorReasonNames : p[1] = name
    THEN Some((CHOOSE p \in ErrorReasonNames : p[1] = name)[2])
    ELSE None

\* the members of ms whose key is / is not "error", in order
RECURSIVE SelectMembers(_, _)
SelectMembers(ms, isError) ==
    IF ms = <<>> THEN <<>>
    ELSE (IF (Head(ms)[1] = "error") = isError THEN <<Head(ms)>> ELSE <<>>)
         \o SelectMembers(Tail(ms), isError)

\* Deserialize for FcmResponse
DeserializeFcmResponse(ms) ==
    LET errs == SelectMembers(ms, TRUE) IN
    IF errs = <<>>
    THEN Some([error |-> None, fields |-> ms])
    ELSE IF Len(errs) > 1 \/ ~ParseErrorReason(errs[1][2]).some
         THEN None
         ELSE Some([error  |-> ParseErrorReason(errs[1][2]),
                    fields |-> SelectMembers(ms, FALSE)])

\* Response::json::<FcmResponse> on the octets of a body
ParseFcmResponse(bs) ==
    IF ~to_str(bs).some THEN None
    ELSE LET obj == ParseJsonObject(to_str(bs).val) IN
         IF ~obj.some THEN None ELSE DeserializeFcmResponse(obj.val)

(***************************************************************************)
(* Results of send: Result<FcmResponse, FcmError>, where the ? operator    *)
(* turns a reqwest::Error into the transport failure.                      *)
(***************************************************************************)
Pending == [kind |-> "Pending"]

Ok(fcm_response) == [kind |-> "Ok", response |-> fcm_response]

Unauthorized == [kind |-> "Err", error |-> [tag |-> "Unauthorized"]]

InvalidMessage(detail) ==
    [kind |-> "Err", error |-> [tag |-> "InvalidMessage", detail |-> detail]]

ServerError(ra) ==
    [kind |-> "Err", error |-> [tag |-> "ServerError", retry_after |-> ra]]

\* From<reqwest::Error>: a failure to build or execute the request
TransportFailure == [kind |-> "Transport"]

(***************************************************************************)
(* The pure steps of Client::send                                          *)
(***************************************************************************)
\* Client::new: the reusable handle and its pool configuration
ClientNew == [http_client |-> [pool_max_idle_per_host |-> "usize::MAX"]]

\* serde_json::to_vec(&MessageWrapper::new(&fin)); a message is given by the
\* JSON text of its finalized form
payload(message) == "{\"message\":" \o message \o "}"

url(project_id) ==
    "https://fcm.googleapis.com/v1/projects/" \o project_id \o "/messages:send"

\* HeaderValue::try_from(&str): every character visible ASCII
ValidHeaderValue(text) ==
    \A i \in 1..Len(text) :
        \E b \in VisibleOctets \ {96} : Chr(b) = SubSeq(text, i, i)

\* RequestBuilder::build: the request, or an error when a header is invalid
BuildRequest(access_token, project_id, message) ==
    IF ValidHeaderValue(access_token)
    THEN Some([method  |-> "POST",
               url     |-> url(project_id),
               headers |-> << <<"Content-Type", "application/json">>,
                              <<"Authorization", access_token>> >>,
               body    |-> payload(message)])
    ELSE None

\* RetryAfterOf with an unparseable header read as a zero delay
RetryAfterOfDefaultZero(header) ==
    IF ~header.some THEN None
    ELSE IF ~to_str(header.val).some THEN Some(Delay(0))
         ELSE IF ParseRetryAfter(to_str(header.val).val).some
              THEN ParseRetryAfter(to_str(header.val).val)
              ELSE Some(Delay(0))

\* the Retry-After header as an Option<RetryAfter>
RetryAfterOf(header) ==
    IF ~header.some THEN None
    ELSE IF ~to_str(header.val).some THEN None
         ELSE ParseRetryAfter(to_str(header.val).val)

OK == 200

BAD_REQUEST == 400

UNAUTHORIZED == 401

\* is_server_error without its upper limit
is_server_errorUnbounded(status) == 500 <= status

is_server_error(status) == 500 <= status /\ status < 600

\* the row of the match on response_status that applies, first match wins
MatchArm(status) ==
    IF status = OK THEN 1
    ELSE IF status = UNAUTHORIZED THEN 2
    ELSE IF status = BAD_REQUEST THEN 3
    ELSE IF is_server_error(status) THEN 4
    ELSE 5

\* MatchStatus without the UNAUTHORIZED arm
MatchStatusNo401(status, ra) ==
    CASE MatchArm(status) = 4 -> ServerError(ra)
      [] MatchArm(status) \in {2, 5} -> InvalidMessage("Unknown Error")
      [] OTHER -> Pending

\* MatchStatus with the server-error arm dropping retry_after
MatchStatusDropsRetryAfter(status, ra) ==
    CASE MatchArm(status) = 2 -> Unauthorized
      [] MatchArm(status) = 4 -> ServerError(None)
      [] MatchArm(status) = 5 -> InvalidMessage("Unknown Error")
      [] OTHER -> Pending

\* the arms of the match that end the call without reading the body
MatchStatus(status, ra) ==
    CASE MatchArm(status) = 2 -> Unauthorized
      [] MatchArm(status) = 4 -> ServerError(ra)
      [] MatchArm(status) = 5 -> InvalidMessage("Unknown Error")
      [] OTHER -> Pending

\* MatchError without the InternalServerError arm
MatchErrorUnavailableOnly(fcm_response, ra) ==
    IF fcm_response.error = Some("Unavailable") THEN ServerError(ra)
    ELSE Ok(fcm_response)

\* the inner match on fcm_response.error
MatchError(fcm_response, ra) ==
    IF fcm_response.error = Some("Unavailable") THEN ServerError(ra)
    ELSE IF fcm_response.error = Some("InternalServerError") THEN ServerError(ra)
    ELSE Ok(fcm_response)

\* BadRequest with the body left out of the description
BadRequestNoBody(body) == InvalidMessage("Bad Request")

\* format!("Bad Request ({body}")
BadRequest(body) == InvalidMessage("Bad Request (" \o body)

\* what the call holding `response` ends with once the body has been read
\* (readable) or its read has failed: the end position and the result
BodyOutcome(status, ra, body, readable) ==
    IF status = OK
    THEN IF readable /\ ParseFcmResponse(body).some
         THEN [pc |-> "done", result |-> MatchError(ParseFcmResponse(body).val, ra)]
         ELSE [pc |-> "panicked", result |-> Pending]
    ELSE IF readable
         THEN [pc |-> "done", result |-> BadRequest(Utf8Lossy(body))]
         ELSE [pc |-> "panicked", result |-> Pending]

\* ReplyFor handing out the reply of the lowest connection that has one,
\* whichever call it belongs to
ReplyForLowest(c, net) ==
    IF \E d \in DOMAIN net : net[d].some
    THEN net[CHOOSE d \in DOMAIN net :
                 net[d].some /\ \A e \in DOMAIN net : net[e].some => d <= e]
    ELSE None

\* the reply the transport hands to the call of task c: the one that arrived
\* on the connection carrying c's request
ReplyFor(c, net) == net[c]

(***************************************************************************)
(* Inputs                                                                  *)
(***************************************************************************)
HttpDate == "Wed, 21 Oct 2015 07:28:00 GMT"

RichInputs ==
    [tokens   |-> {"Bearer ya29.a0", "Bearer ya29\n"},
     projects |-> {"my-proj"},
     messages |-> {"{\"token\":\"d1\"}"},
     statuses |-> {200, 201, 204, 301, 400, 401, 403, 404, 418, 429, 499,
                   500, 503, 599, 600},
     headers  |-> {None, Some(Bytes("120")), Some(Bytes("0")),
                   Some(Bytes(HttpDate)), Some(Bytes("soon")), Some(<<>>),
                   Some(Bytes("12x")), Some(Bytes(" 120")),
                   Some(Bytes("120") \o <<255>>)},
     bodies   |-> {Bytes("{\"name\":\"projects/my-proj/messages/1\"}"),
                   Bytes("{\"error\":\"UNAVAILABLE\"}"),
                   Bytes("{\"error\": \"INTERNAL\", \"name\": \"m2\"}"),
                   Bytes("{\"error\":\"UNREGISTERED\",\"name\":\"m3\"}"),
                   Bytes("{\"error\":\"INVALID_ARGUMENT\"}"),
                   Bytes("{}"),
                   Bytes("project not found"),
                   Bytes("{\"name\":"),
                   <<>>,
                   <<255>> \o Bytes("bad")}]

SmallInputs ==
    [tokens   |-> {"Bearer ya29.a0"},
     projects |-> {"my-proj"},
     messages |-> {"{\"token\":\"d1\"}"},
     statuses |-> {200, 400, 401, 503},
     headers  |-> {None, Some(Bytes("120"))},
     bodies   |-> {Bytes("{\"name\":\"m1\"}"), Bytes("{\"error\":\"UNAVAILABLE\"}"),
                   Bytes("project not found")}]

(***************************************************************************)
(* State                                                                   *)
(***************************************************************************)
VARIABLES
    client,       \* the Client: its http_client handle
    pc,           \* pc[c]: where the send call of task c stands
    args,         \* args[c]: access_token, project_id, message of the call
    outbound,     \* outbound[c]: the requests the call has put on the network
    inbound,      \* inbound[c]: the reply on the connection of c's request
    response,     \* response[c]: the Response execute returned to the call
    retry_after,  \* retry_after[c]: the call's local retry_after
    body_read,    \* body_read[c]: "unread", "read" or "failed"
    result        \* result[c]: what the call returned

vars == <<client, pc, args, outbound, inbound, response, retry_after,
          body_read, result>>

Init ==
    /\ client = ClientNew
    /\ pc = [c \in Tasks |-> "idle"]
    /\ args = [c \in Tasks |-> None]
    /\ outbound = [c \in Tasks |-> <<>>]
    /\ inbound = [c \in Tasks |-> None]
    /\ response = [c \in Tasks |-> None]
    /\ retry_after = [c \in Tasks |-> None]
    /\ body_read = [c \in Tasks |-> "unread"]
    /\ result = [c \in Tasks |-> Pending]

\* lines 39-54 up to the await: build the request and hand it to the
\* transport, or return the build error
send(c, in) ==
    /\ pc[c] = "idle"
    /\ \E t \in in.tokens, p \in in.projects, m \in in.messages :
         LET request == BuildRequest(t, p, m) IN
         /\ args' = [args EXCEPT ![c] =
                        Some([access_token |-> t, project_id |-> p, message |-> m])]
         /\ IF request.some
            THEN /\ outbound' = [outbound EXCEPT ![c] = Append(@, request.val)]
                 /\ pc' = [pc EXCEPT ![c] = "execute"]
                 /\ result' = result
            ELSE /\ outbound' = outbound
                 /\ pc' = [pc EXCEPT ![c] = "done"]
                 /\ result' = [result EXCEPT ![c] = TransportFailure]
    /\ UNCHANGED <<client, inbound, response, retry_after, body_read>>

\* the provider answers the request of task c
ProviderResponds(c, in) ==
    /\ pc[c] = "execute"
    /\ outbound[c] # <<>>
    /\ ~inbound[c].some
    /\ \E s \in in.statuses, h \in in.headers, b \in in.bodies :
         inbound' = [inbound EXCEPT ![c] =
                        Some([status |-> s, retry_after |-> h, body |-> b])]
    /\ UNCHANGED <<client, pc, args, outbound, response, retry_after,
                   body_read, result>>

\* line 54: execute fails (connection, TLS, timeout), no response arrives
ExecuteFails(c) ==
    /\ pc[c] = "execute"
    /\ ~inbound[c].some
    /\ pc' = [pc EXCEPT ![c] = "done"]
    /\ result' = [result EXCEPT ![c] = TransportFailure]
    /\ UNCHANGED <<client, args, outbound, inbound, response, retry_after,
                   body_read>>

\* ExecuteReturns retrying the request itself on a server error
ExecuteReturnsRetrying(c) ==
    /\ pc[c] = "execute"
    /\ ReplyFor(c, inbound).some
    /\ LET resp            == ReplyFor(c, inbound).val
           response_status == resp.status
           ra              == RetryAfterOf(resp.retry_after)
       IN /\ response' = [response EXCEPT ![c] = Some(resp)]
          /\ retry_after' = [retry_after EXCEPT ![c] = ra]
          /\ IF is_server_error(response_status)
             THEN /\ outbound' = [outbound EXCEPT ![c] = Append(@, Head(@))]
                  /\ inbound' = [inbound EXCEPT ![c] = None]
                  /\ UNCHANGED <<pc, result>>
             ELSE /\ UNCHANGED <<outbound, inbound>>
                  /\ IF response_status = OK
                     THEN pc' = [pc EXCEPT ![c] = "json"] /\ result' = result
                     ELSE IF response_status = BAD_REQUEST
                     THEN pc' = [pc EXCEPT ![c] = "text"] /\ result' = result
                     ELSE /\ pc' = [pc EXCEPT ![c] = "done"]
                          /\ result' = [result EXCEPT ![c] =
                                           MatchStatus(response_status, ra)]
    /\ UNCHANGED <<client, args, body_read>>

\* lines 54-81 up to the next await: take the response, read the status and
\* Retry-After, and match on the status
ExecuteReturns(c) ==
    /\ pc[c] = "execute"
    /\ ReplyFor(c, inbound).some
    /\ LET resp            == ReplyFor(c, inbound).val
           response_status == resp.status
           ra              == RetryAfterOf(resp.retry_after)
       IN /\ response' = [response EXCEPT ![c] = Some(resp)]
          /\ retry_after' = [retry_after EXCEPT ![c] = ra]
          /\ IF response_status = OK
             THEN pc' = [pc EXCEPT ![c] = "json"] /\ result' = result
             ELSE IF response_status = BAD_REQUEST
             THEN pc' = [pc EXCEPT ![c] = "text"] /\ result' = result
             ELSE /\ pc' = [pc EXCEPT ![c] = "done"]
                  /\ result' = [result EXCEPT ![c] = MatchStatus(response_status, ra)]
    /\ UNCHANGED <<client, args, outbound, inbound, body_read>>

\* lines 66-72: response.json().await.unwrap() and the match on the error
JsonBody(c) ==
    /\ pc[c] = "json"
    /\ \E readable \in BOOLEAN :
         LET out == BodyOutcome(OK, retry_after[c], response[c].val.body, readable)
         IN /\ body_read' = [body_read EXCEPT ![c] = IF readable THEN "read" ELSE "failed"]
            /\ pc' = [pc EXCEPT ![c] = out.pc]
            /\ result' = [result EXCEPT ![c] = out.result]
    /\ UNCHANGED <<client, args, outbound, inbound, response, retry_after>>

\* lines 76-77: response.text().await.unwrap() and the InvalidMessage
TextBody(c) ==
    /\ pc[c] = "text"
    /\ \E readable \in BOOLEAN :
         LET out == BodyOutcome(BAD_REQUEST, retry_after[c], response[c].val.body, readable)
         IN /\ body_read' = [body_read EXCEPT ![c] = IF readable THEN "read" ELSE "failed"]
            /\ pc' = [pc EXCEPT ![c] = out.pc]
            /\ result' = [result EXCEPT ![c] = out.result]
    /\ UNCHANGED <<client, args, outbound, inbound, response, retry_after>>

\* the call is over: its locals and its connection's exchange are dropped and
\* the task may call send again
Return(c) ==
    /\ pc[c] \in {"done", "panicked"}
    /\ pc' = [pc EXCEPT ![c] = "idle"]
    /\ args' = [args EXCEPT ![c] = None]
    /\ outbound' = [outbound EXCEPT ![c] = <<>>]
    /\ inbound' = [inbound EXCEPT ![c] = None]
    /\ response' = [response EXCEPT ![c] = None]
    /\ retry_after' = [retry_after EXCEPT ![c] = None]
    /\ body_read' = [body_read EXCEPT ![c] = "unread"]
    /\ result' = [result EXCEPT ![c] = Pending]
    /\ UNCHANGED client

\* one task calling send, over the rich inputs
Caller == {1}

Next ==
    \E c \in Caller :
        \/ send(c, RichInputs)
        \/ ProviderResponds(c, RichInputs)
        \/ ExecuteFails(c)
        \/ ExecuteReturns(c)
        \/ JsonBody(c)
        \/ TextBody(c)
        \/ Return(c)

Spec == Init /\ [][Next]_vars

\* every task calling send concurrently, over the small inputs
NextConcurrent ==
    \E c \in Tasks :
        \/ send(c, SmallInputs)
        \/ ProviderResponds(c, SmallInputs)
        \/ ExecuteFails(c)
        \/ ExecuteReturns(c)
        \/ JsonBody(c)
        \/ TextBody(c)
        \/ Return(c)

SpecConcurrent == Init /\ [][NextConcurrent]_vars

(***************************************************************************)
(* Properties                                                              *)
(***************************************************************************)
Ended(c) == pc[c] \in {"done", "panicked"}

\* the call of task c has ended holding a response with this status
EndedWith(c, status) ==
    Ended(c) /\ response[c].some /\ response[c].val.status = status

ErrorTags == {"Unauthorized", "InvalidMessage", "ServerError"}

\* C1: every call that has ended has produced exactly one of a success
\* Response, a classified error (Unauthorized, InvalidMessage, ServerError)
\* or a transport failure, whatever the network and the provider did.
C1_ExactlyOneOutcome ==
    \A c \in Tasks :
        Ended(c) =>
            Cardinality({ k \in {"Ok", "Err", "Transport"} :
                            /\ result[c].kind = k
                            /\ k = "Err" => result[c].error.tag \in ErrorTags }) = 1

\* C2: on status 200 with a body that parses as a Response the call returns
\* ServerError with the parsed Retry-After exactly when the error reason is
\* Unavailable or InternalServerError, and otherwise returns the parsed
\* Response unmodified; a success never carries one of those two reasons.
C2_EmbeddedError ==
    \A c \in Tasks :
        ( /\ EndedWith(c, 200)
          /\ body_read[c] = "read"
          /\ ParseFcmResponse(response[c].val.body).some )
        => LET parsed    == ParseFcmResponse(response[c].val.body).val
               transient == parsed.error \in {Some("Unavailable"),
                                              Some("InternalServerError")}
               ra        == RetryAfterOf(response[c].val.retry_after)
           IN /\ pc[c] = "done"
              /\ transient <=> result[c] = ServerError(ra)
              /\ ~transient => result[c] = Ok(parsed)
              /\ result[c].kind = "Ok" =>
                    result[c].response.error \notin {Some("Unavailable"),
                                                     Some("InternalServerError")}
              /\ response[c].val.body = Bytes("{\"name\":\"projects/my-proj/messages/1\"}")
                    => result[c] = Ok([error  |-> None,
                                       fields |-> << <<"name", "projects/my-proj/messages/1">> >>])
              /\ ( /\ response[c].val.body = Bytes("{\"error\": \"INTERNAL\", \"name\": \"m2\"}")
                   /\ response[c].val.retry_after = Some(Bytes("120")) )
                    => result[c] = ServerError(Some(Delay(120)))

C2_Witness ==
    \E c \in Tasks :
        /\ EndedWith(c, 200)
        /\ body_read[c] = "read"
        /\ response[c].val.body = Bytes("{\"error\": \"INTERNAL\", \"name\": \"m2\"}")
        /\ response[c].val.retry_after = Some(Bytes("120"))
        /\ result[c] = ServerError(Some(Delay(120)))

\* C3: on status 401 the call returns Unauthorized whatever the body and the
\* Retry-After header are, and it never reads the body.
C3_Unauthorized ==
    \A c \in Tasks :
        EndedWith(c, 401) =>
            /\ pc[c] = "done"
            /\ result[c] = Unauthorized
            /\ body_read[c] = "unread"

C3_Witness ==
    \E c \in Tasks :
        /\ EndedWith(c, 401)
        /\ response[c].val.body = Bytes("{\"error\":\"UNAVAILABLE\"}")
        /\ response[c].val.retry_after = Some(Bytes("120"))
        /\ result[c] = Unauthorized

\* C4: on status 400 the call reads the body as text and returns
\* InvalidMessage whose detail contains that text verbatim.
C4_BadRequestEmbedsBody ==
    \A c \in Tasks :
        (EndedWith(c, 400) /\ body_read[c] = "read") =>
            /\ pc[c] = "done"
            /\ result[c].kind = "Err"
            /\ result[c].error.tag = "InvalidMessage"
            /\ Contains(result[c].error.detail, Utf8Lossy(response[c].val.body))
            /\ response[c].val.body = Bytes("project not found")
                  => Contains(result[c].error.detail, "project not found")

C4_Witness ==
    \E c \in Tasks :
        /\ EndedWith(c, 400)
        /\ body_read[c] = "read"
        /\ response[c].val.body = Bytes("project not found")
        /\ result[c] = InvalidMessage("Bad Request (project not found")

\* C5: on every status in 500..599 the call returns ServerError carrying
\* exactly the Retry-After value of the response: a 120-second delay for
\* "Retry-After: 120", no value when the header is missing.
C5_ServerErrorRetryAfter ==
    \A c \in Tasks :
        ( /\ Ended(c)
          /\ response[c].some
          /\ response[c].val.status \in 500..599 )
        => /\ pc[c] = "done"
           /\ result[c] = ServerError(RetryAfterOf(response[c].val.retry_after))
           /\ response[c].val.retry_after = Some(Bytes("120"))
                 => result[c] = ServerError(Some(Delay(120)))
           /\ response[c].val.retry_after = Some(Bytes(HttpDate))
                 => result[c] = ServerError(Some(DateTime(2015, 10, 21, 7, 28, 0)))
           /\ response[c].val.retry_after = None
                 => result[c] = ServerError(None)

C5_Witness ==
    \E c \in Tasks :
        /\ EndedWith(c, 503)
        /\ response[c].val.retry_after = Some(Bytes("120"))
        /\ result[c] = ServerError(Some(Delay(120)))

\* C6: on every status that is none of 200, 401, 400 or 5xx the call returns
\* InvalidMessage with the generic description and does not crash; of the
\* five rows 200, 401, 400, 5xx, other exactly one applies to each status.
C6_UnknownStatus ==
    \A c \in Tasks :
        (Ended(c) /\ response[c].some) =>
            LET s    == response[c].val.status
                rows == << s = 200, s = 401, s = 400, s \in 500..599,
                           s \notin {200, 401, 400} \cup (500..599) >>
            IN /\ Cardinality({ r \in 1..5 : rows[r] }) = 1
               /\ rows[MatchArm(s)]
               /\ rows[5] => /\ pc[c] = "done"
                             /\ result[c] = InvalidMessage("Unknown Error")
                             /\ body_read[c] = "unread"
               /\ result[c].kind = "Err" /\ result[c].error.tag = "Unauthorized"
                     => rows[2]
               /\ result[c].kind = "Ok" => rows[1]

C6_Witness ==
    \E c \in Tasks :
        /\ EndedWith(c, 418)
        /\ pc[c] = "done"
        /\ result[c] = InvalidMessage("Unknown Error")

\* a header value that cannot be read as text or cannot be parsed
Unparseable(header) ==
    /\ header.some
    /\ \/ ~to_str(header.val).some
       \/ ~ParseRetryAfter(to_str(header.val).val).some

\* C7: a Retry-After header that is present but unreadable or unparseable is
\* treated like a missing one: the call ends as the status and the body
\* alone determine, and a ServerError then carries no retry-after value.
C7_UnparseableRetryAfter ==
    \A c \in Tasks :
        (response[c].some /\ Unparseable(response[c].val.retry_after)) =>
            /\ retry_after[c] = None
            /\ result[c] # TransportFailure
            /\ Ended(c) =>
                  /\ [pc |-> pc[c], result |-> result[c]] =
                        IF response[c].val.status \in {OK, BAD_REQUEST}
                        THEN BodyOutcome(response[c].val.status, None,
                                         response[c].val.body, body_read[c] = "read")
                        ELSE [pc     |-> "done",
                              result |-> MatchStatus(response[c].val.status, None)]
                  /\ (result[c].kind = "Err" /\ result[c].error.tag = "ServerError")
                        => result[c].error.retry_after = None

C7_Witness ==
    \E c \in Tasks :
        /\ EndedWith(c, 503)
        /\ response[c].val.retry_after = Some(Bytes("120") \o <<255>>)
        /\ result[c] = ServerError(None)

\* C8: a call puts exactly one request on the network, none when building
\* the request fails, and never a second one, whatever its outcome.
C8_OneRequest ==
    \A c \in Tasks :
        /\ Len(outbound[c]) <= 1
        /\ Ended(c) =>
              Len(outbound[c]) =
                 IF ValidHeaderValue(args[c].val.access_token) THEN 1 ELSE 0
        /\ outbound[c] # <<>> =>
              /\ outbound[c][1].url = url(args[c].val.project_id)
              /\ outbound[c][1].body = payload(args[c].val.message)

C8_Witness ==
    \E c \in Tasks :
        /\ EndedWith(c, 503)
        /\ result[c] = ServerError(Some(Delay(120)))
        /\ Len(outbound[c]) = 1

\* C9: a call ends in a panic only on a status-200 response whose body cannot
\* be parsed as a Response; no other response ends in a panic, in particular
\* not a 400 whose body cannot be read.
C9_PanicOnlyOn200 ==
    \A c \in Tasks :
        pc[c] = "panicked" =>
            /\ response[c].some
            /\ response[c].val.status = 200
            /\ \/ body_read[c] = "failed"
               \/ ~ParseFcmResponse(response[c].val.body).some

\* the outcome of a call running alone on these arguments, this reply (None
\* when execute fails) and this fate of the body read
SoloOutcome(a, reply, read) ==
    IF ~ValidHeaderValue(a.access_token) \/ ~reply.some
    THEN [pc |-> "done", result |-> TransportFailure]
    ELSE LET ra == RetryAfterOf(reply.val.retry_after) IN
         IF reply.val.status \in {OK, BAD_REQUEST}
         THEN BodyOutcome(reply.val.status, ra, reply.val.body, read = "read")
         ELSE [pc |-> "done", result |-> MatchStatus(reply.val.status, ra)]

\* C10: however concurrent calls on one Client interleave, each call holds
\* the response to its own request and ends as it would running alone on
\* its own arguments and response, and the Client is left as constructed.
C10_NoInterference ==
    /\ client = ClientNew
    /\ \A c \in Tasks :
          /\ response[c].some =>
                /\ response[c] = inbound[c]
                /\ retry_after[c] = RetryAfterOf(inbound[c].val.retry_after)
          /\ Ended(c) =>
                [pc |-> pc[c], result |-> result[c]] =
                    SoloOutcome(args[c].val, inbound[c], body_read[c])

C10_Witness ==
    \E c, d \in Tasks :
        /\ c # d
        /\ EndedWith(c, 503)
        /\ result[c] = ServerError(Some(Delay(120)))
        /\ pc[d] = "text"
        /\ response[d].val.retry_after = None
        /\ inbound[c] # inbound[d]

=============================================================================
